---- MODULE Spec2Model ----
(***************************************************************************)
(* A model of beemeteo's gap-filling and normalisation code:               *)
(*   - sources/meteogalicia/__init__.py : the MeteoGalicia source (day     *)
(*     fetch with resolution fallback, historical gap filling, forecast    *)
(*     collection, raster aggregation);                                    *)
(*   - sources/era5/utils.py : the ERA5-Land download loop, the GRIB       *)
(*     query and the transformation pipe.                                  *)
(*                                                                         *)
(* Time.  An instant is a whole number of hours since the epoch (UTC); the *)
(* code's epoch seconds are these hours times 3600.  A time zone is its    *)
(* offset from UTC in hours.  A wall-clock datetime is [day, hour].        *)
(*                                                                         *)
(* Frames.  A pandas DataFrame is [columns |-> sequence of column names,   *)
(* rows |-> sequence of records].  pd.DataFrame() has no columns and no    *)
(* rows.                                                                   *)
(***************************************************************************)
EXTENDS Integers, Sequences, FiniteSets, TLC

VARIABLES
    pc,               \* where the modelled call stands
    \* ---- MeteoGalicia: arguments
    latitude,         \* the requested latitude
    longitude,        \* the requested longitude
    local_tz,         \* the location's time zone (offset from UTC, hours)
    \* ---- MeteoGalicia._get_historic_data_day
    fetch_day,        \* the date (day number) the day fetch is for
    age,              \* (utcnow - day).days, which selects the URL template
    responses,        \* what the endpoint answers to each of the five URLs
    resolution,       \* index of the resolution the loop stands at
    requests,         \* the HTTP requests made so far by this day fetch
    daily_data,       \* the frame the day fetch returned
    \* ---- MeteoGalicia._collect_forecasting
    now,              \* the "now" argument, in half hours (UTC)
    forecasted_data,  \* the frame returned
    \* ---- MeteoGalicia._get_historical_data_source
    gaps,             \* the list of (ts_ini, ts_end) wall-clock datetimes
    gap_idx,          \* index of the gap the outer loop stands at
    day,              \* the date the inner loop stands at
    data_period,      \* the rows gathered for the current gap
    missing_data,     \* the rows gathered for the gaps done so far
    calls,            \* the day fetches made so far: [gap, day]
    fetched,          \* every row any day fetch returned
    hist_result,      \* the frame returned
    \* ---- MeteoGalicia._collect_raster
    raster_data,      \* what _get_historic_forecasting_raster returned
    raster_result,    \* the frame returned
    \* ---- era5: the data directory
    files,            \* the GRIB files in data_dir: [ym, area]
    data_dir_exists,  \* whether data_dir exists
    idx_files,        \* the index files on disk: [file, hash]
    \* ---- era5.get_hourly_historical_weather_from_ERA5Land
    ym_range,         \* the ym_range argument
    area,             \* the bounding box made of lat_range and lon_range
    ym,               \* the month the loop stands at
    processed,        \* the months the loop body ran for, in this call
    calls_done,       \* the number of calls that have ended
    last_call,        \* the arguments and the outcome of the call before
    \* ---- era5.query_from_grib
    grib_args,        \* the lat, lon and grib_contains arguments
    list_grib_files,  \* the sorted list of the files to load
    file_idx,         \* the index of the file the loop stands at
    loaded,           \* the files whose rows are in df
    \* ---- era5.cleaning_pipe, era5.transformation_pipe
    clean_args,       \* the lat and lon arguments of cleaning_pipe
    df_in,            \* the frame given
    df_out            \* the frame returned

mgVars == <<latitude, longitude, local_tz>>
dayVars == <<fetch_day, age, responses, resolution, requests, daily_data>>
fcVars == <<now, forecasted_data>>
histVars == <<gaps, gap_idx, day, data_period, missing_data, calls, fetched, hist_result>>

rasterVars == <<raster_data, raster_result>>

dirVars == <<files, data_dir_exists, idx_files>>
downloadVars == <<ym_range, area, ym, processed, calls_done, last_call>>
gribVars == <<grib_args, list_grib_files, file_idx, loaded>>
pipeVars == <<clean_args, df_in, df_out>>
eraVars == <<dirVars, downloadVars, gribVars, pipeVars>>

vars == <<pc, mgVars, dayVars, fcVars, histVars, rasterVars, eraVars>>

-----------------------------------------------------------------------------
(* Frames *)

EmptyFrame == [columns |-> <<>>, rows |-> <<>>]

HasColumn(df, c) == \E i \in 1..Len(df.columns) : df.columns[i] = c

\* pd.concat([a, b]) of frames that have the same columns, or none
Concat(a, b) ==
    [columns |-> IF a.columns = <<>> THEN b.columns ELSE a.columns,
     rows |-> a.rows \o b.rows]

RECURSIVE InsertByTs(_, _)
InsertByTs(sorted, r) ==
    IF sorted = <<>> THEN <<r>>
    ELSE IF sorted[Len(sorted)].ts <= r.ts THEN Append(sorted, r)
    ELSE Append(InsertByTs(SubSeq(sorted, 1, Len(sorted) - 1), r), sorted[Len(sorted)])

RECURSIVE SortRowsByTs(_)
SortRowsByTs(rows) ==
    IF rows = <<>> THEN <<>>
    ELSE InsertByTs(SortRowsByTs(SubSeq(rows, 1, Len(rows) - 1)), rows[Len(rows)])

\* df.sort_values(by=["ts"]) of a frame that has the column
SortValuesByTs(df) == [columns |-> df.columns, rows |-> SortRowsByTs(df.rows)]

-----------------------------------------------------------------------------
(* The state of the parts a call does not use *)

DayIdle ==
    /\ fetch_day = 0
    /\ age = 0
    /\ responses = <<>>
    /\ resolution = 0
    /\ requests = <<>>
    /\ daily_data = EmptyFrame

ForecastIdle ==
    /\ now = 0
    /\ forecasted_data = EmptyFrame

HistIdle ==
    /\ gaps = <<>>
    /\ gap_idx = 0
    /\ day = 0
    /\ data_period = EmptyFrame
    /\ missing_data = EmptyFrame
    /\ calls = <<>>
    /\ fetched = {}
    /\ hist_result = EmptyFrame

RasterIdle ==
    /\ raster_data = EmptyFrame
    /\ raster_result = EmptyFrame

MeteoGaliciaIdle ==
    /\ latitude = 0
    /\ longitude = 0
    /\ local_tz = 0
    /\ DayIdle
    /\ ForecastIdle
    /\ HistIdle
    /\ RasterIdle

DownloadIdle ==
    /\ ym_range = <<>>
    /\ area = <<>>
    /\ ym = 0
    /\ processed = <<>>
    /\ calls_done = 0
    /\ last_call = <<>>

GribIdle ==
    /\ grib_args = [lat |-> 0, lon |-> 0, grib_contains |-> 0]
    /\ list_grib_files = <<>>
    /\ file_idx = 0
    /\ loaded = <<>>

PipeIdle ==
    /\ clean_args = <<>>
    /\ df_in = EmptyFrame
    /\ df_out = EmptyFrame

DirIdle ==
    /\ files = {}
    /\ data_dir_exists = FALSE
    /\ idx_files = {}

Era5Idle ==
    /\ DirIdle
    /\ DownloadIdle
    /\ GribIdle
    /\ PipeIdle

-----------------------------------------------------------------------------
(* Helpers of beemeteo.utils *)

\* _pandas_to_tz: the same instants, seen in the time zone tz
pandas_to_tz(time, tz) == [utc |-> time, tz |-> tz]

\* _pandas_dt_to_ts_utc: the UTC epoch timestamp of a zone-aware datetime
pandas_dt_to_ts_utc(dt) == dt.utc

\* tz.localize(datetime.combine(date, time(hour))).timestamp()
LocalizedTimestamp(date, hour, tz) == date * 24 + hour - tz

-----------------------------------------------------------------------------
(* MeteoGalicia._get_historic_data_day *)

\* Mutant: two neighbouring resolutions change places
ResolutionsSwapped == << <<4, 2>>, <<12, 1>>, <<12, 2>>, <<36, 2>>, <<36, 1>> >>

Resolutions == << <<4, 2>>, <<12, 2>>, <<12, 1>>, <<36, 2>>, <<36, 1>> >>

RecentDays == 14

\* The URL requested for a resolution: the operational template (the last 14
\* days, run 00) or the historical one, which has no kilometre part.
UrlMg(res, date, days_ago) ==
    IF days_ago <= RecentDays
    THEN [template |-> "fmrc", km |-> res[1], domain |-> res[2], date |-> date, run |-> 0]
    ELSE [template |-> "WRF_HIST", km |-> 0, domain |-> res[2], date |-> date, run |-> 0]

\* What the endpoint holds for a date: a file of hourly rows that starts at
\* 01:00 UTC of the date and runs over the following days.
CsvSorted(date) ==
    [kind |-> "csv",
     rows |-> << [time |-> date * 24 + 1,  GHI |-> 10 * date + 1],
                 [time |-> date * 24 + 22, GHI |-> 10 * date + 2],
                 [time |-> date * 24 + 23, GHI |-> 10 * date + 3],
                 [time |-> date * 24 + 49, GHI |-> 10 * date + 4] >>]

\* A response whose rows are out of order and repeat a time
CsvUnsorted(date) ==
    [kind |-> "csv",
     rows |-> << [time |-> date * 24 + 23, GHI |-> 10 * date + 5],
                 [time |-> date * 24 + 1,  GHI |-> 10 * date + 6],
                 [time |-> date * 24 + 1,  GHI |-> 10 * date + 7] >>]

CsvResponses(date) == {CsvSorted(date), CsvUnsorted(date)}

\* "error": requests.get raises; "empty": a table of no rows;
\* "malformed": a table with rows that has no date column to parse
BadResponses == {[kind |-> "error", rows |-> <<>>],
                 [kind |-> "empty", rows |-> <<>>],
                 [kind |-> "malformed", rows |-> <<>>]}

Responses(date) == BadResponses \cup CsvResponses(date)

\* len(solar_data) != 0
NonEmpty(resp) == resp.kind \in {"malformed", "csv"}

\* the else branch runs to its return without raising
Parses(resp) == resp.kind = "csv"

\* rename, ts column, [["ts", "GHI"]], reset_index
ParseSolarData(resp, tz) ==
    [columns |-> <<"ts", "GHI">>,
     rows |-> [i \in 1..Len(resp.rows) |->
                  [ts |-> pandas_dt_to_ts_utc(pandas_to_tz(resp.rows[i].time, tz)),
                   GHI |-> resp.rows[i].GHI]]]

\* The whole call, given the endpoint's answer to each resolution's URL:
\* the rows of the first response that parses, else pd.DataFrame({}).
RECURSIVE DayFetchFrom(_, _, _)
DayFetchFrom(resps, i, tz) ==
    IF i > Len(Resolutions) THEN EmptyFrame
    ELSE IF NonEmpty(resps[i]) /\ Parses(resps[i]) THEN ParseSolarData(resps[i], tz)
    ELSE DayFetchFrom(resps, i + 1, tz)

get_historic_data_day(resps, tz) == DayFetchFrom(resps, 1, tz)

\* The request the loop makes at its current resolution
RequestMade ==
    [resolution |-> Resolutions[resolution],
     url |-> UrlMg(Resolutions[resolution], fetch_day, age),
     nonempty |-> NonEmpty(responses[resolution])]

\* requests.get raises: logged, next resolution
RequestError ==
    /\ pc = "day_fetch"
    /\ resolution <= Len(Resolutions)
    /\ responses[resolution].kind = "error"
    /\ requests' = Append(requests, RequestMade)
    /\ resolution' = resolution + 1
    /\ UNCHANGED <<pc, mgVars, fetch_day, age, responses, daily_data, fcVars, histVars, rasterVars, eraVars>>

\* len(solar_data) == 0: raise, logged, next resolution
ResponseEmpty ==
    /\ pc = "day_fetch"
    /\ resolution <= Len(Resolutions)
    /\ responses[resolution].kind = "empty"
    /\ requests' = Append(requests, RequestMade)
    /\ resolution' = resolution + 1
    /\ UNCHANGED <<pc, mgVars, fetch_day, age, responses, daily_data, fcVars, histVars, rasterVars, eraVars>>

\* rows, but solar_data["time"] raises KeyError: logged, next resolution
ResponseMalformed ==
    /\ pc = "day_fetch"
    /\ resolution <= Len(Resolutions)
    /\ NonEmpty(responses[resolution])
    /\ ~Parses(responses[resolution])
    /\ requests' = Append(requests, RequestMade)
    /\ resolution' = resolution + 1
    /\ UNCHANGED <<pc, mgVars, fetch_day, age, responses, daily_data, fcVars, histVars, rasterVars, eraVars>>

\* rows that parse: return solar_data
ResponseCsv ==
    /\ pc = "day_fetch"
    /\ resolution <= Len(Resolutions)
    /\ NonEmpty(responses[resolution])
    /\ Parses(responses[resolution])
    /\ requests' = Append(requests, RequestMade)
    /\ daily_data' = ParseSolarData(responses[resolution], local_tz)
    /\ pc' = "day_returned"
    /\ UNCHANGED <<mgVars, fetch_day, age, responses, resolution, fcVars, histVars, rasterVars, eraVars>>

\* the loop ran out of resolutions: return pd.DataFrame({})
AllResolutionsFailed ==
    /\ pc = "day_fetch"
    /\ resolution > Len(Resolutions)
    /\ daily_data' = EmptyFrame
    /\ pc' = "day_returned"
    /\ UNCHANGED <<mgVars, fetch_day, age, responses, resolution, requests, fcVars, histVars, rasterVars, eraVars>>

-----------------------------------------------------------------------------
(* MeteoGalicia._collect_forecasting *)

\* int(now.astimezone(pytz.UTC).timestamp()): now is in half hours
NowTimestamp(t) == t \div 2

\* Mutant: the query is left out
QueryKeepsAll(rows, now_timestamp) == rows

\* forecasted_data.query("timestamp >= {now_timestamp}")
QueryFromNow(rows, now_timestamp) ==
    SelectSeq(rows, LAMBDA r : r.timestamp >= now_timestamp)

\* rename ts to timestamp, set latitude, longitude and forecasting_timestamp
StampForecast(rows, lat, lon, now_timestamp) ==
    [i \in 1..Len(rows) |->
        [timestamp |-> rows[i].ts, GHI |-> rows[i].GHI, latitude |-> lat,
         longitude |-> lon, forecasting_timestamp |-> now_timestamp]]

\* the day fetch returned rows: stamp them and keep those from now on
CollectForecasting ==
    /\ pc = "day_returned"
    /\ HasColumn(daily_data, "ts")
    /\ forecasted_data' =
          [columns |-> <<"timestamp", "GHI", "latitude", "longitude", "forecasting_timestamp">>,
           rows |-> QueryFromNow(StampForecast(daily_data.rows, latitude, longitude,
                                               NowTimestamp(now)),
                                 NowTimestamp(now))]
    /\ pc' = "fc_done"
    /\ UNCHANGED <<mgVars, dayVars, now, histVars, rasterVars, eraVars>>

\* the day fetch returned pd.DataFrame({}): query finds no "timestamp" and raises
CollectForecastingRaises ==
    /\ pc = "day_returned"
    /\ ~HasColumn(daily_data, "ts")
    /\ pc' = "fc_raised"
    /\ UNCHANGED <<mgVars, dayVars, fcVars, histVars, rasterVars, eraVars>>

Latitudes == {4129}
Longitudes == {219}
TimeZones == {-1, 1}
Ages == {0, 15}
NowDays == {1}
NowHalfHours == {44, 45}

InitForecast ==
    /\ pc = "day_fetch"
    /\ latitude \in Latitudes
    /\ longitude \in Longitudes
    /\ local_tz \in TimeZones
    /\ fetch_day \in NowDays
    /\ age \in Ages
    /\ \E h \in NowHalfHours : now = 2 * (fetch_day * 24 - local_tz) + h
    /\ responses \in [1..Len(Resolutions) -> Responses(fetch_day)]
    /\ resolution = 1
    /\ requests = <<>>
    /\ daily_data = EmptyFrame
    /\ forecasted_data = EmptyFrame
    /\ HistIdle
    /\ RasterIdle
    /\ Era5Idle

NextForecast ==
    \/ RequestError
    \/ ResponseEmpty
    \/ ResponseMalformed
    \/ ResponseCsv
    \/ AllResolutionsFailed
    \/ CollectForecasting
    \/ CollectForecastingRaises

SpecForecast == InitForecast /\ [][NextForecast]_vars

-----------------------------------------------------------------------------
(* MeteoGalicia._get_historical_data_source *)

MaxGaps == 2
MaxDay == 2
GapHours == {0, 13}

\* ts.date(): the calendar day of a wall-clock datetime
Date(dt) == dt.day

\* local_tz.localize(combine(ts.date(), min.time())).timestamp()
LocalMidnight(dt, tz) == LocalizedTimestamp(Date(dt), 0, tz)

MeteogaliciaStartHour == 1

\* pytz.UTC.localize(combine(ts_ini.date(), time(1))): 01:00 UTC of the date
MeteogaliciaStart(dt) == LocalizedTimestamp(Date(dt), MeteogaliciaStartHour, 0)

\* Mutant: the loop starts at the gap's first day whatever the time zone
TsIniLoopNoDayBefore(dt, tz) == Date(dt)

\* The first date to fetch: the day before when MeteoGalicia's day starts
\* after the local midnight of the gap's first day.
TsIniLoop(dt, tz) ==
    IF MeteogaliciaStart(dt) > LocalMidnight(dt, tz) THEN Date(dt) - 1 ELSE Date(dt)

LastHour == 23

\* Mutant: the query is left out
QueryPeriodKeepsAll(rows, gap, tz) == rows

\* data_period.query("ts >= ts_ini and ts <= ts_end + 23 h")
QueryPeriod(rows, gap, tz) ==
    SelectSeq(rows, LAMBDA r : /\ r.ts >= LocalMidnight(gap.ts_ini, tz)
                               /\ r.ts <= LocalMidnight(gap.ts_end, tz) + LastHour)

RECURSIVE DropDuplicateRows(_, _)
DropDuplicateRows(rows, seen) ==
    IF rows = <<>> THEN <<>>
    ELSE LET r == Head(rows)
             key == <<r.latitude, r.longitude, r.ts>>
         IN  IF key \in seen THEN DropDuplicateRows(Tail(rows), seen)
             ELSE <<r>> \o DropDuplicateRows(Tail(rows), seen \cup {key})

\* Mutant: drop_duplicates is left out
KeepDuplicates(rows) == rows

\* drop_duplicates(subset=["latitude", "longitude", "ts"]): the first row of each key
DropDuplicates(rows) == DropDuplicateRows(rows, {})

\* missing_data["latitude"] = latitude; missing_data["longitude"] = longitude
WithLocation(rows, lat, lon) ==
    [i \in 1..Len(rows) |->
        [ts |-> rows[i].ts, GHI |-> rows[i].GHI, latitude |-> lat, longitude |-> lon]]

\* the key columns first, then the others sorted, unless the frame is empty
KeyColumnsFirst(rows) ==
    IF rows = <<>> THEN <<"ts", "GHI", "latitude", "longitude">>
    ELSE <<"latitude", "longitude", "ts", "GHI">>

\* The endpoint's answers to one day fetch: the resolutions before the k-th
\* give a response that is not used, the k-th and later ones a table.
DayScenarios(date) ==
    {[i \in 1..Len(Resolutions) |-> IF i < k THEN bad ELSE good] :
        k \in 1..(Len(Resolutions) + 1), bad \in BadResponses, good \in CsvResponses(date)}

\* for ts_ini, ts_end in gaps: the head of the loop body
BeginGap ==
    /\ pc = "hist_gap"
    /\ gap_idx <= Len(gaps)
    /\ day' = TsIniLoop(gaps[gap_idx].ts_ini, local_tz)
    /\ data_period' = EmptyFrame
    /\ pc' = "hist_day"
    /\ UNCHANGED <<mgVars, dayVars, fcVars, gaps, gap_idx, missing_data, calls,
                   fetched, hist_result, rasterVars, eraVars>>

\* for day in pd.date_range(ts_ini_loop, ts_end, freq="1d"): one day fetch
FetchDay ==
    /\ pc = "hist_day"
    /\ day <= Date(gaps[gap_idx].ts_end)
    /\ \E resps \in DayScenarios(day) :
          LET daily == get_historic_data_day(resps, local_tz)
          IN  /\ data_period' = Concat(data_period, daily)
              /\ fetched' = fetched \cup {daily.rows[i].ts : i \in 1..Len(daily.rows)}
    /\ calls' = Append(calls, [gap |-> gap_idx, day |-> day])
    /\ day' = day + 1
    /\ UNCHANGED <<pc, mgVars, dayVars, fcVars, gaps, gap_idx, missing_data, hist_result,
                   rasterVars, eraVars>>

\* after the days of a gap: sort, keep the gap's bound, add to missing_data
EndGap ==
    /\ pc = "hist_day"
    /\ day > Date(gaps[gap_idx].ts_end)
    /\ HasColumn(data_period, "ts")
    /\ missing_data' =
          Concat(missing_data,
                 [columns |-> data_period.columns,
                  rows |-> QueryPeriod(SortValuesByTs(data_period).rows,
                                       gaps[gap_idx], local_tz)])
    /\ gap_idx' = gap_idx + 1
    /\ pc' = "hist_gap"
    /\ UNCHANGED <<mgVars, dayVars, fcVars, gaps, day, data_period, calls, fetched,
                   hist_result, rasterVars, eraVars>>

\* every day of the gap gave pd.DataFrame({}): sort_values(by=["ts"]) raises KeyError
EndGapKeyError ==
    /\ pc = "hist_day"
    /\ day > Date(gaps[gap_idx].ts_end)
    /\ ~HasColumn(data_period, "ts")
    /\ pc' = "hist_raised"
    /\ UNCHANGED <<mgVars, dayVars, fcVars, histVars, rasterVars, eraVars>>

\* after the gaps: sort, set the location, drop duplicates, order the columns
FinishHistorical ==
    /\ pc = "hist_gap"
    /\ gap_idx > Len(gaps)
    /\ HasColumn(missing_data, "ts")
    /\ LET rows == DropDuplicates(WithLocation(SortValuesByTs(missing_data).rows,
                                               latitude, longitude))
       IN  hist_result' = [columns |-> KeyColumnsFirst(rows), rows |-> rows]
    /\ pc' = "hist_done"
    /\ UNCHANGED <<mgVars, dayVars, fcVars, gaps, gap_idx, day, data_period,
                   missing_data, calls, fetched, rasterVars, eraVars>>

\* no gap at all: missing_data is pd.DataFrame() and sort_values raises KeyError
FinishKeyError ==
    /\ pc = "hist_gap"
    /\ gap_idx > Len(gaps)
    /\ ~HasColumn(missing_data, "ts")
    /\ pc' = "hist_raised"
    /\ UNCHANGED <<mgVars, dayVars, fcVars, histVars, rasterVars, eraVars>>

GapDatetimes(h) ==
    {[ts_ini |-> [day |-> a, hour |-> h], ts_end |-> [day |-> b, hour |-> h]] :
        a \in 1..MaxDay, b \in 1..MaxDay} 

GapLists(h) ==
    UNION {[1..n -> {g \in GapDatetimes(h) : g.ts_ini.day <= g.ts_end.day}] : n \in 0..MaxGaps}

InitHistorical ==
    /\ pc = "hist_gap"
    /\ latitude \in Latitudes
    /\ longitude \in Longitudes
    /\ local_tz \in TimeZones
    /\ \E h \in GapHours : gaps \in GapLists(h)
    /\ gap_idx = 1
    /\ day = 0
    /\ data_period = EmptyFrame
    /\ missing_data = EmptyFrame
    /\ calls = <<>>
    /\ fetched = {}
    /\ hist_result = EmptyFrame
    /\ DayIdle
    /\ ForecastIdle
    /\ RasterIdle
    /\ Era5Idle

NextHistorical ==
    \/ BeginGap
    \/ FetchDay
    \/ EndGap
    \/ EndGapKeyError
    \/ FinishHistorical
    \/ FinishKeyError

SpecHistorical == InitHistorical /\ [][NextHistorical]_vars

-----------------------------------------------------------------------------
(* MeteoGalicia._collect_raster *)

\* A latitude or longitude is a whole number of hundredths of a degree.  The
\* text of a float that is a multiple of 0.1 below 10 in size is its sign and
\* its tenths: "-0.0" is [sign |-> "-", tenths |-> 0].

Precision == 10

\* np.round of the fraction num / den, den > 0: to the nearest integer,
\* halves to even
RoundHalfEven(num, den) ==
    LET q == num \div den
        r == num % den
    IN  IF 2 * r < den THEN q
        ELSE IF 2 * r > den THEN q + 1
        ELSE IF q % 2 = 0 THEN q ELSE q + 1

\* (round(v * precision) / precision).astype(str), v given in hundredths:
\* a negative value that rounds to zero is the float -0.0
RoundedText(v) ==
    LET t == RoundHalfEven(v * Precision, 100)
    IN  [sign |-> IF t < 0 \/ (t = 0 /\ v < 0) THEN "-" ELSE "",
         tenths |-> IF t < 0 THEN -t ELSE t]

\* Mutant: the replacement of "-0.0" is left out
KeepNegativeZero(text) == text

\* .replace('-0.0', '0.0')
ReplaceNegativeZero(text) ==
    IF text = [sign |-> "-", tenths |-> 0] THEN [sign |-> "", tenths |-> 0] ELSE text

\* the group key of a cell
GroupKey(c) ==
    <<c.forecasting_timestamp, c.timestamp,
      ReplaceNegativeZero(RoundedText(c.latitude)),
      ReplaceNegativeZero(RoundedText(c.longitude))>>

\* the order of two such texts as strings: "-" sorts before the digits, and
\* texts of the same sign sort by their digits
TextLess(a, b) ==
    \/ a.sign = "-" /\ b.sign = ""
    \/ a.sign = b.sign /\ a.tenths < b.tenths

\* the order of two group keys: column by column
KeyLess(a, b) ==
    \/ a[1] < b[1]
    \/ a[1] = b[1] /\ a[2] < b[2]
    \/ a[1] = b[1] /\ a[2] = b[2] /\ TextLess(a[3], b[3])
    \/ a[1] = b[1] /\ a[2] = b[2] /\ a[3] = b[3] /\ TextLess(a[4], b[4])

RECURSIVE SortKeys(_)
SortKeys(keys) ==
    IF keys = {} THEN <<>>
    ELSE LET least == CHOOSE k \in keys : \A o \in keys \ {k} : KeyLess(k, o)
         IN  <<least>> \o SortKeys(keys \ {least})

RECURSIVE SumOf(_, _)
SumOf(rows, col) ==
    IF rows = <<>> THEN 0 ELSE rows[1][col] + SumOf(Tail(rows), col)

\* the mean of a column over the rows of a group, as the fraction sum / n
Mean(rows, col) == [sum |-> SumOf(rows, col), n |-> Len(rows)]

\* groupby([forecasting_timestamp, timestamp, latitude, longitude]).agg(mean)
\* and reset_index: one row per key, in the order of the keys
GroupByMean(cells) ==
    LET keys == SortKeys({GroupKey(cells[i]) : i \in 1..Len(cells)})
    IN  [k \in 1..Len(keys) |->
            LET group == SelectSeq(cells, LAMBDA c : GroupKey(c) = keys[k])
            IN  [forecasting_timestamp |-> keys[k][1],
                 timestamp |-> keys[k][2],
                 latitude |-> keys[k][3],
                 longitude |-> keys[k][4],
                 GHI |-> Mean(group, "GHI"),
                 airTemperature |-> Mean(group, "airTemperature")]]

\* the raster fetch returned cells: round, group, average
CollectRaster ==
    /\ pc = "raster_fetched"
    /\ HasColumn(raster_data, "windSpeed")
    /\ raster_result' =
          [columns |-> <<"forecasting_timestamp", "timestamp", "latitude", "longitude",
                         "GHI", "airTemperature">>,
           rows |-> GroupByMean(raster_data.rows)]
    /\ pc' = "raster_done"
    /\ UNCHANGED <<mgVars, dayVars, fcVars, histVars, raster_data, eraVars>>

\* the raster fetch failed and returned pd.DataFrame({}): drop(columns=...) raises
CollectRasterKeyError ==
    /\ pc = "raster_fetched"
    /\ ~HasColumn(raster_data, "windSpeed")
    /\ pc' = "raster_raised"
    /\ UNCHANGED <<mgVars, dayVars, fcVars, histVars, rasterVars, eraVars>>

MaxCells == 3
CellLatitudes == {-4, 4}
CellLongitudes == {-5, 15}
CellTimestamps == {1, 2}
CellValues == {[GHI |-> 0, airTemperature |-> 15], [GHI |-> 3, airTemperature |-> 18]}

\* the rows of the provider's grid for the day: forecasting_timestamp is the
\* day's midnight on every row
RasterCells ==
    {[forecasting_timestamp |-> 0, timestamp |-> t, latitude |-> la, longitude |-> lo,
      GHI |-> v.GHI, airTemperature |-> v.airTemperature] :
        t \in CellTimestamps, la \in CellLatitudes, lo \in CellLongitudes, v \in CellValues}

RasterFrames ==
    {EmptyFrame} \cup
    {[columns |-> <<"timestamp", "latitude", "longitude", "Lambert_Conformal", "windSpeed",
                    "windDirection", "GHI", "airTemperature", "forecasting_timestamp">>,
      rows |-> cells] : cells \in UNION {[1..n -> RasterCells] : n \in 1..MaxCells}}

InitRaster ==
    /\ pc = "raster_fetched"
    /\ latitude = 0
    /\ longitude = 0
    /\ local_tz = 0
    /\ raster_data \in RasterFrames
    /\ raster_result = EmptyFrame
    /\ DayIdle
    /\ ForecastIdle
    /\ HistIdle
    /\ Era5Idle

NextRaster ==
    \/ CollectRaster
    \/ CollectRasterKeyError

SpecRaster == InitRaster /\ [][NextRaster]_vars

-----------------------------------------------------------------------------
(* Properties of the day fetch and of the forecast collection (SpecForecast) *)

\* The stepwise loop and the operator get_historic_data_day agree on the result.
DayFetchAgrees ==
    pc \in {"day_returned", "fc_done", "fc_raised"}
        => daily_data = get_historic_data_day(responses, local_tz)

ExpectedOrder == << <<4, 2>>, <<12, 2>>, <<12, 1>>, <<36, 2>>, <<36, 1>> >>

DayFetchOver == pc \in {"day_returned", "fc_done", "fc_raised"}

RequestsInOrder ==
    /\ Len(requests) <= 5
    /\ \A j \in 1..Len(requests) : requests[j].resolution = ExpectedOrder[j]

RowsOfResponse(resp) ==
    [i \in 1..Len(resp.rows) |-> [ts |-> resp.rows[i].time, GHI |-> resp.rows[i].GHI]]

\* C1 as stated: the resolutions are requested in the fixed order, each at most
\* once; no resolution is requested after one whose response was non-empty; the
\* call returns the rows of the first non-empty response, and an empty frame if
\* every resolution fails or is empty.
C1_StopsAtFirstNonEmpty ==
    /\ RequestsInOrder
    /\ \A j \in 1..(Len(requests) - 1) : ~requests[j].nonempty
    /\ DayFetchOver =>
          IF \E j \in 1..5 : responses[j].kind \in {"malformed", "csv"}
          THEN /\ requests[Len(requests)].nonempty
               /\ daily_data.rows = RowsOfResponse(responses[Len(requests)])
          ELSE Len(requests) = 5 /\ daily_data = EmptyFrame

\* C1 amended: the resolutions are requested in the fixed order, each at most
\* once (at most 5 requests); a response that is non-empty but cannot be
\* parsed counts as a failure like an empty one; no resolution is requested
\* after one whose response was non-empty and parsed; the call returns the rows
\* of the first such response, and an empty frame if there is none.
C1_StopsAtFirstParsedResponse ==
    /\ RequestsInOrder
    /\ \A j \in 1..(Len(requests) - 1) : responses[j].kind # "csv"
    /\ DayFetchOver =>
          IF \E j \in 1..5 : responses[j].kind = "csv"
          THEN /\ Len(requests) >= 1
               /\ responses[Len(requests)].kind = "csv"
               /\ daily_data.columns = <<"ts", "GHI">>
               /\ daily_data.rows = RowsOfResponse(responses[Len(requests)])
          ELSE Len(requests) = 5 /\ daily_data = EmptyFrame

\* C1 witness: a non-empty response that does not parse, then a later
\* resolution whose rows are returned
C1_Witness ==
    /\ pc = "day_returned"
    /\ Len(requests) = 3
    /\ responses[1].kind = "empty"
    /\ responses[2].kind = "malformed"
    /\ Len(daily_data.rows) = 4

\* C6: every row _collect_forecasting returns has timestamp >= T, where T is
\* now in whole UTC epoch units, and carries forecasting_timestamp = T and the
\* requested latitude and longitude.
C6_ForecastFromNow ==
    pc = "fc_done" =>
        \A i \in 1..Len(forecasted_data.rows) :
            LET r == forecasted_data.rows[i]
            IN  /\ r.timestamp >= now \div 2
                /\ r.forecasting_timestamp = now \div 2
                /\ r.latitude = latitude
                /\ r.longitude = longitude

\* C6 witness: the provider returned rows before T, a row at T and rows after
\* T; the rows before T are gone and the row at T is kept
C6_Witness ==
    /\ pc = "fc_done"
    /\ \E i \in 1..Len(daily_data.rows) : daily_data.rows[i].ts < now \div 2
    /\ \E i \in 1..Len(forecasted_data.rows) : forecasted_data.rows[i].timestamp = now \div 2
    /\ \E i \in 1..Len(forecasted_data.rows) : forecasted_data.rows[i].timestamp > now \div 2
    /\ Len(forecasted_data.rows) < Len(daily_data.rows)

-----------------------------------------------------------------------------
(* Properties of the historical gap filling (SpecHistorical) *)

\* the dates fetched for gap g, in the order of the calls
DaysCalled(g) ==
    LET of_gap == SelectSeq(calls, LAMBDA c : c.gap = g)
    IN  [i \in 1..Len(of_gap) |-> of_gap[i].day]

DaysFromTo(a, b) == [i \in 1..(IF b >= a THEN b - a + 1 ELSE 0) |-> a + i - 1]

GapOver(g) == g < gap_idx \/ (g = gap_idx /\ pc = "hist_raised" /\ g <= Len(gaps))

CallsInGapOrder == \A i, j \in 1..Len(calls) : i < j => calls[i].gap <= calls[j].gap

\* C2: with at least one gap, the call does not raise, whatever days fail.
C2_DayFailureIsNotFatal == ~(pc = "hist_raised" /\ Len(gaps) > 0)

\* C3 as stated: for each gap the day fetch is called exactly once per calendar
\* day from the gap's start day to its end day, ascending, in gap order; with
\* no gap, no call is made.
C3_OneCallPerGapDay ==
    /\ CallsInGapOrder
    /\ \A g \in 1..Len(gaps) :
          GapOver(g) => DaysCalled(g) = DaysFromTo(gaps[g].ts_ini.day, gaps[g].ts_end.day)
    /\ gaps = <<>> => calls = <<>>

\* C3 amended: for each gap the day fetch is called exactly once per calendar
\* day from the first fetched day to the gap's end day, ascending, in gap
\* order, where the first fetched day is the day before the gap's start day
\* when 01:00 UTC of the start date is later than local midnight of the start
\* day (time zones east of UTC-1), and the start day otherwise; with no gap,
\* no call is made.
C3_OneCallPerFetchedDay ==
    /\ CallsInGapOrder
    /\ \A g \in 1..Len(gaps) :
          GapOver(g) =>
              DaysCalled(g) =
                  DaysFromTo(IF local_tz > -1 THEN gaps[g].ts_ini.day - 1
                                               ELSE gaps[g].ts_ini.day,
                             gaps[g].ts_end.day)
    /\ gaps = <<>> => calls = <<>>

\* C3 witness: a finished call of two gaps in which the day before a gap's
\* start day was fetched
C3_Witness ==
    /\ pc = "hist_done"
    /\ Len(gaps) = 2
    /\ \E i \in 1..Len(calls) : calls[i].day = gaps[calls[i].gap].ts_ini.day - 1
    /\ \E i \in 1..Len(calls) : calls[i].gap = 2 /\ calls[i].day = gaps[2].ts_end.day

\* C4: the returned rows have no two rows of the same (latitude, longitude,
\* ts) and are in non-decreasing ts order.
C4_NoDuplicatesSorted ==
    pc = "hist_done" =>
        LET rows == hist_result.rows
        IN  /\ \A i, j \in 1..Len(rows) : i < j => rows[i].ts <= rows[j].ts
            /\ \A i, j \in 1..Len(rows) :
                  i # j => <<rows[i].latitude, rows[i].longitude, rows[i].ts>>
                           # <<rows[j].latitude, rows[j].longitude, rows[j].ts>>

\* C4 witness: overlapping gaps fetched the same timestamps twice and the
\* gathered rows were out of order
C4_Witness ==
    /\ pc = "hist_done"
    /\ \E i, j \in 1..Len(calls) : calls[i].gap # calls[j].gap /\ calls[i].day = calls[j].day
    /\ \E i, j \in 1..Len(missing_data.rows) :
          i # j /\ missing_data.rows[i].ts = missing_data.rows[j].ts
    /\ \E i, j \in 1..Len(missing_data.rows) :
          i < j /\ missing_data.rows[i].ts > missing_data.rows[j].ts
    /\ Len(hist_result.rows) >= 2

\* C5: every returned row lies in the bound of one of the gaps: not before
\* local midnight of its start day, not after 23:00 local of its end day.
C5_RowsWithinGapBounds ==
    pc = "hist_done" =>
        \A i \in 1..Len(hist_result.rows) :
            \E g \in 1..Len(gaps) :
                /\ hist_result.rows[i].ts >= gaps[g].ts_ini.day * 24 - local_tz
                /\ hist_result.rows[i].ts <= gaps[g].ts_end.day * 24 - local_tz + 23

\* C5 witness: the day before was fetched; one of its rows lies before the
\* gap and is not returned, another lies in the gap and is returned; a row
\* fetched beyond the gap's end is not returned
C5_Witness ==
    /\ pc = "hist_done"
    /\ Len(gaps) = 1
    /\ \E i \in 1..Len(calls) : calls[i].day = gaps[1].ts_ini.day - 1
    /\ LET lo == gaps[1].ts_ini.day * 24 - local_tz
           hi == gaps[1].ts_end.day * 24 - local_tz + 23
           returned == {hist_result.rows[i].ts : i \in 1..Len(hist_result.rows)}
       IN  /\ \E t \in fetched : t < lo /\ t \notin returned
           /\ \E t \in fetched : t > hi /\ t \notin returned
           /\ lo \in returned
           /\ hi \in returned

-----------------------------------------------------------------------------
(* Properties of the raster aggregation (SpecRaster) *)

\* a value in hundredths rounded to 0.1, in tenths: the nearest tenth, the
\* even one of two equally near
TenthOf(v) ==
    CHOOSE t \in -10..10 :
        LET d == IF v >= 10 * t THEN v - 10 * t ELSE 10 * t - v
        IN  d < 5 \/ (d = 5 /\ t % 2 = 0)

\* the number a rounded text stands for, in tenths
TextValue(text) == IF text.sign = "-" THEN -text.tenths ELSE text.tenths

CellKey(c) ==
    <<c.forecasting_timestamp, c.timestamp, TenthOf(c.latitude), TenthOf(c.longitude)>>

RowKey(r) ==
    <<r.forecasting_timestamp, r.timestamp, TextValue(r.latitude), TextValue(r.longitude)>>

CellsOfKey(k) == {i \in 1..Len(raster_data.rows) : CellKey(raster_data.rows[i]) = k}

RECURSIVE TotalOver(_, _)
TotalOver(S, col) ==
    IF S = {} THEN 0
    ELSE LET i == CHOOSE x \in S : TRUE
         IN  raster_data.rows[i][col] + TotalOver(S \ {i}, col)

\* C7: the result has exactly one row per distinct (forecasting_timestamp,
\* timestamp, latitude rounded to 0.1, longitude rounded to 0.1) of the raw
\* cells, -0.0 and 0.0 being the same value, and no other row; each averaged
\* column of a row is the mean of the column over all raw cells of its group.
C7_OneRowPerGroupWithMean ==
    pc = "raster_done" =>
        LET cells == raster_data.rows
            rows == raster_result.rows
        IN  /\ \A i \in 1..Len(cells) :
                  Cardinality({j \in 1..Len(rows) : RowKey(rows[j]) = CellKey(cells[i])}) = 1
            /\ \A j \in 1..Len(rows) :
                  LET group == CellsOfKey(RowKey(rows[j]))
                  IN  /\ group # {}
                      /\ \A col \in {"GHI", "airTemperature"} :
                            /\ rows[j][col].n > 0
                            /\ rows[j][col].sum * Cardinality(group)
                                  = TotalOver(group, col) * rows[j][col].n

\* C7 witness: a cell that rounds to -0.0 and a cell that rounds to 0.0, with
\* different values, became one row holding their mean, beside another group
C7_Witness ==
    /\ pc = "raster_done"
    /\ Len(raster_data.rows) = 3
    /\ Len(raster_result.rows) = 2
    /\ \E i, j \in 1..3 :
          /\ raster_data.rows[i].latitude = -4
          /\ raster_data.rows[j].latitude = 4
          /\ raster_data.rows[i].GHI # raster_data.rows[j].GHI
          /\ CellKey(raster_data.rows[i]) = CellKey(raster_data.rows[j])
    /\ \E k \in 1..2 :
          /\ raster_result.rows[k].latitude = [sign |-> "", tenths |-> 0]
          /\ raster_result.rows[k].GHI = [sum |-> 3, n |-> 2]

-----------------------------------------------------------------------------
(* era5.get_hourly_historical_weather_from_ERA5Land *)

MaxCalls == 2
YmValues == {201311, 201312, 201401}
LatRanges == {<<42, 40>>, <<49, 50>>}
LonRanges == {<<0, 3>>}

YmRanges == {<<a>> : a \in YmValues} \cup {<<a, b>> : a \in YmValues, b \in YmValues}

\* min(...) and max(...) of a non-empty list
Min(list) == CHOOSE x \in {list[i] : i \in 1..Len(list)} : \A i \in 1..Len(list) : x <= list[i]
Max(list) == CHOOSE x \in {list[i] : i \in 1..Len(list)} : \A i \in 1..Len(list) : x >= list[i]

\* the 'area' of the request: upper left and lower right points
BoundingBox(lat_range, lon_range) ==
    <<Max(lat_range), Min(lon_range), Min(lat_range), Max(lon_range)>>

\* {data_dir}/{year}{month:02}_{maxLat}_{minLon}_{minLat}_{maxLon}.grib
FileName(month_ym, box) == [ym |-> month_ym, area |-> box]

\* Mutant: the existence check always says no
PathNeverExists(path, dir) == FALSE

\* os.path.exists(filename)
PathExists(path, dir) == path \in dir

\* year = int(str(ym)[0:4]); month = int(str(ym)[4:6])
YearOf(m) == m \div 100
MonthOf(m) == m % 100

\* Mutant: the month after December is not carried into the year
NextYmNoCarry(m) == m + 1

\* month += 1; if month > 12: year += 1, month = 1; ym = int(f'{year}{month:02}')
NextYm(m) ==
    IF MonthOf(m) + 1 > 12 THEN (YearOf(m) + 1) * 100 + 1
    ELSE YearOf(m) * 100 + MonthOf(m) + 1

Downloads(months) == Cardinality({i \in 1..Len(months) : months[i].retrieved})

CallEnded == pc \in {"dl_idle", "dl_done", "dl_raised"}

\* a call is made; what the call before was and how it ended is kept
StartCall ==
    /\ CallEnded
    /\ calls_done < MaxCalls
    /\ ym_range' \in YmRanges
    /\ \E lat_range \in LatRanges, lon_range \in LonRanges :
          area' = BoundingBox(lat_range, lon_range)
    /\ last_call' = IF pc = "dl_idle" THEN <<>>
                    ELSE [ym_range |-> ym_range, area |-> area, outcome |-> pc,
                          downloads |-> Downloads(processed)]
    /\ processed' = <<>>
    /\ ym' = 0
    /\ pc' = "dl_client"
    /\ UNCHANGED <<mgVars, dayVars, fcVars, histVars, rasterVars, dirVars, calls_done,
                   gribVars, pipeVars>>

\* Mutant: the data directory is made before the client is created
ClientFailsAfterMakedirs ==
    /\ pc = "dl_client"
    /\ data_dir_exists' = TRUE
    /\ pc' = "dl_raised"
    /\ calls_done' = calls_done + 1
    /\ UNCHANGED <<mgVars, dayVars, fcVars, histVars, rasterVars, files, idx_files, ym_range,
                   area, ym, processed, last_call, gribVars, pipeVars>>

\* cdsapi.Client() raises: the message is printed and "raise print(...)"
\* raises in its turn, before ym is set and before os.makedirs
CreateClientFails ==
    /\ pc = "dl_client"
    /\ pc' = "dl_raised"
    /\ calls_done' = calls_done + 1
    /\ UNCHANGED <<mgVars, dayVars, fcVars, histVars, rasterVars, dirVars, ym_range, area,
                   ym, processed, last_call, gribVars, pipeVars>>

\* the client is there: ym = min(ym_range); os.makedirs(data_dir, exist_ok=True)
CreateClient ==
    /\ pc = "dl_client"
    /\ ym' = Min(ym_range)
    /\ data_dir_exists' = TRUE
    /\ pc' = "dl_month"
    /\ UNCHANGED <<mgVars, dayVars, fcVars, histVars, rasterVars, files, idx_files,
                   ym_range, area, processed, calls_done, last_call, gribVars, pipeVars>>

\* the month's file is there: no download
MonthFileExists ==
    /\ pc = "dl_month"
    /\ ym <= Max(ym_range)
    /\ PathExists(FileName(ym, area), files)
    /\ processed' = Append(processed, [ym |-> ym, existed |-> FileName(ym, area) \in files,
                                       retrieved |-> FALSE])
    /\ ym' = NextYm(ym)
    /\ UNCHANGED <<pc, mgVars, dayVars, fcVars, histVars, rasterVars, dirVars, ym_range,
                   area, calls_done, last_call, gribVars, pipeVars>>

\* the month's file is not there: c.retrieve downloads it
MonthRetrieve ==
    /\ pc = "dl_month"
    /\ ym <= Max(ym_range)
    /\ ~PathExists(FileName(ym, area), files)
    /\ processed' = Append(processed, [ym |-> ym, existed |-> FileName(ym, area) \in files,
                                       retrieved |-> TRUE])
    /\ files' = files \cup {FileName(ym, area)}
    /\ ym' = NextYm(ym)
    /\ UNCHANGED <<pc, mgVars, dayVars, fcVars, histVars, rasterVars, data_dir_exists,
                   idx_files, ym_range, area, calls_done, last_call, gribVars, pipeVars>>

\* c.retrieve raises, having written the target file or not: the call ends
MonthRetrieveFails ==
    /\ pc = "dl_month"
    /\ ym <= Max(ym_range)
    /\ ~PathExists(FileName(ym, area), files)
    /\ processed' = Append(processed, [ym |-> ym, existed |-> FileName(ym, area) \in files,
                                       retrieved |-> TRUE])
    /\ \E written \in BOOLEAN :
          files' = IF written THEN files \cup {FileName(ym, area)} ELSE files
    /\ pc' = "dl_raised"
    /\ calls_done' = calls_done + 1
    /\ UNCHANGED <<mgVars, dayVars, fcVars, histVars, rasterVars, data_dir_exists, idx_files,
                   ym_range, area, ym, last_call, gribVars, pipeVars>>

\* ym > max(ym_range): the loop ends and the call returns
DownloadReturns ==
    /\ pc = "dl_month"
    /\ ym > Max(ym_range)
    /\ pc' = "dl_done"
    /\ calls_done' = calls_done + 1
    /\ UNCHANGED <<mgVars, dayVars, fcVars, histVars, rasterVars, dirVars, ym_range, area,
                   ym, processed, last_call, gribVars, pipeVars>>

\* what data_dir may hold before the first call
InitialFiles == {{}, {FileName(201312, <<42, 0, 40, 3>>)}}

InitDownload ==
    /\ pc = "dl_idle"
    /\ MeteoGaliciaIdle
    /\ files \in InitialFiles
    /\ data_dir_exists = (files # {})
    /\ idx_files = {}
    /\ DownloadIdle
    /\ GribIdle
    /\ PipeIdle

NextDownload ==
    \/ StartCall
    \/ CreateClientFails
    \/ CreateClient
    \/ MonthFileExists
    \/ MonthRetrieve
    \/ MonthRetrieveFails
    \/ DownloadReturns

SpecDownload == InitDownload /\ [][NextDownload]_vars

\* a call that has begun goes on until it returns or raises
CallRuns ==
    \/ CreateClientFails
    \/ CreateClient
    \/ MonthFileExists
    \/ MonthRetrieve
    \/ MonthRetrieveFails
    \/ DownloadReturns

SpecDownloadFair == SpecDownload /\ WF_vars(CallRuns)

-----------------------------------------------------------------------------
(* era5.query_from_grib *)

\* the GRIB files data_dir may hold
GribAreas == {<<42, 0, 40, 3>>, <<50, 18, 49, 19>>}
GribFiles == {FileName(m, a) : m \in {201312, 201401}, a \in GribAreas}

\* an optional argument: None, or a value
None == [given |-> FALSE, value |-> 0]
Some(v) == [given |-> TRUE, value |-> v]

\* the arguments lat, lon and grib_contains (a year-month text)
GribArguments ==
    {[lat |-> la, lon |-> lo, grib_contains |-> c] :
        la \in {None, Some(41), Some(49)}, lo \in {None, Some(2)},
        c \in {None, Some(201401)}}

\* random.getrandbits(128)
Hashes == {1, 2}

\* the file's box holds lat: maxLat >= lat >= minLat
LatInFile(lat, f) == ~lat.given \/ (f.area[1] >= lat.value /\ lat.value >= f.area[3])

\* the file's box holds lon: minLon <= lon <= maxLon
LonInFile(lon, f) == ~lon.given \/ (f.area[2] <= lon.value /\ lon.value <= f.area[4])

\* grib_contains in fn, for a year-month text
NameContains(text, f) == ~text.given \/ f.ym = text.value

\* the order of two paths as strings, for six-digit months and boxes whose
\* numbers have two digits: by month, then by the box's first number
PathLess(f, g) == f.ym < g.ym \/ (f.ym = g.ym /\ f.area[1] < g.area[1])

RECURSIVE SortPaths(_)
SortPaths(paths) ==
    IF paths = {} THEN <<>>
    ELSE LET least == CHOOSE f \in paths : \A g \in paths \ {f} : PathLess(f, g)
         IN  <<least>> \o SortPaths(paths \ {least})

\* sorted([... for fn in os.listdir(data_dir) if ...])
ListGribFiles(dir, args) ==
    SortPaths({f \in dir : /\ LatInFile(args.lat, f)
                           /\ LonInFile(args.lon, f)
                           /\ NameContains(args.grib_contains, f)})

\* cleaning_pipe(df, lat, lon) with one of lat and lon None: the first test
\* "lat is not None or lon is not None" holds and np.round(None, 1) raises
RoundOfNone(lat, lon) == lat.given # lon.given

\* f'{fn}.{hash}.idx'
IndexPath(fn, hash) == [file |-> fn, hash |-> hash]

\* cfgrib.open_datasets raises before it has written the index file
OpenFails ==
    /\ pc = "grib_file"
    /\ file_idx <= Len(list_grib_files)
    /\ pc' = "grib_raised"
    /\ UNCHANGED <<mgVars, dayVars, fcVars, histVars, rasterVars, dirVars, downloadVars,
                   gribVars, pipeVars>>

\* cfgrib.open_datasets raises after it has written the index file:
\* os.remove is not reached
OpenFailsIndexWritten ==
    /\ pc = "grib_file"
    /\ file_idx <= Len(list_grib_files)
    /\ \E hash \in Hashes :
          idx_files' = idx_files \cup {IndexPath(list_grib_files[file_idx], hash)}
    /\ pc' = "grib_raised"
    /\ UNCHANGED <<mgVars, dayVars, fcVars, histVars, rasterVars, files, data_dir_exists,
                   downloadVars, gribVars, pipeVars>>

\* cfgrib.open_datasets could not write the index file and went on without
\* it: os.remove raises FileNotFoundError
OpenWithoutIndex ==
    /\ pc = "grib_file"
    /\ file_idx <= Len(list_grib_files)
    /\ pc' = "grib_raised"
    /\ UNCHANGED <<mgVars, dayVars, fcVars, histVars, rasterVars, dirVars, downloadVars,
                   gribVars, pipeVars>>

\* the index file is written, the datasets are opened, the index file is
\* removed, and the pipes raise
PipesFail ==
    /\ pc = "grib_file"
    /\ file_idx <= Len(list_grib_files)
    /\ \E hash \in Hashes :
          idx_files' = (idx_files \cup {IndexPath(list_grib_files[file_idx], hash)})
                          \ {IndexPath(list_grib_files[file_idx], hash)}
    /\ pc' = "grib_raised"
    /\ UNCHANGED <<mgVars, dayVars, fcVars, histVars, rasterVars, files, data_dir_exists,
                   downloadVars, gribVars, pipeVars>>

\* the index file is written, the datasets are opened, the index file is
\* removed, and the file's rows are added to df
LoadFile ==
    /\ pc = "grib_file"
    /\ file_idx <= Len(list_grib_files)
    /\ ~RoundOfNone(grib_args.lat, grib_args.lon)
    /\ \E hash \in Hashes :
          idx_files' = (idx_files \cup {IndexPath(list_grib_files[file_idx], hash)})
                          \ {IndexPath(list_grib_files[file_idx], hash)}
    /\ loaded' = Append(loaded, list_grib_files[file_idx])
    /\ file_idx' = file_idx + 1
    /\ UNCHANGED <<pc, mgVars, dayVars, fcVars, histVars, rasterVars, files, data_dir_exists,
                   downloadVars, grib_args, list_grib_files, pipeVars>>

\* the loop is over: return df
QueryReturns ==
    /\ pc = "grib_file"
    /\ file_idx > Len(list_grib_files)
    /\ pc' = "grib_done"
    /\ UNCHANGED <<mgVars, dayVars, fcVars, histVars, rasterVars, dirVars, downloadVars,
                   gribVars, pipeVars>>

InitGrib ==
    /\ pc = "grib_file"
    /\ MeteoGaliciaIdle
    /\ files \in SUBSET GribFiles
    /\ data_dir_exists = TRUE
    /\ idx_files = {}
    /\ DownloadIdle
    /\ grib_args \in GribArguments
    /\ list_grib_files = ListGribFiles(files, grib_args)
    /\ file_idx = 1
    /\ loaded = <<>>
    /\ PipeIdle

NextGrib ==
    \/ OpenFails
    \/ OpenFailsIndexWritten
    \/ OpenWithoutIndex
    \/ PipesFail
    \/ LoadFile
    \/ QueryReturns

SpecGrib == InitGrib /\ [][NextGrib]_vars

-----------------------------------------------------------------------------
(* era5.transformation_pipe and era5.shift *)

\* A float is NaN or the fraction num / den.
NaN == [nan |-> TRUE, num |-> 0, den |-> 1]
Float(n) == [nan |-> FALSE, num |-> n, den |-> 1]

SecondsPerHour == 3600

\* a - b of two floats whose den is 1
Minus(a, b) == IF a.nan \/ b.nan THEN NaN ELSE Float(a.num - b.num)

\* a > 0: False for NaN
Positive(a) == ~a.nan /\ a.num > 0

\* a / 3600
PerSecond(a) == IF a.nan THEN NaN ELSE [nan |-> FALSE, num |-> a.num, den |-> a.den * SecondsPerHour]

\* shift(arr, num) for num > 0: the first num places are NaN, the others
\* hold the value num places before
shift(arr, num) == [i \in 1..Len(arr) |-> IF i <= num THEN NaN ELSE arr[i - num]]

Column(rows, col) == [i \in 1..Len(rows) |-> rows[i][col]]

\* np.array(df[col]) - shift(df[col], 1)
Difference(rows, col) ==
    LET arr == Column(rows, col)
        prev == shift(arr, 1)
    IN  [i \in 1..Len(arr) |-> Minus(arr[i], prev[i])]

\* np.sqrt(x) of a whole number x >= 0: the whole part of the root, and
\* whether the root is that whole number
Sqrt(x) ==
    LET s == CHOOSE r \in 0..x : r * r <= x /\ (r + 1) * (r + 1) > x
    IN  [floor |-> s, exact |-> s * s = x]

\* An angle in degrees is known to the eighth of a turn: it is lo when
\* lo = hi, and lies strictly between lo and hi otherwise.
Angle(lo, hi) == [lo |-> lo, hi |-> hi]

Abs(x) == IF x < 0 THEN -x ELSE x

\* np.arctan2(y, x) * 180 / np.pi for numbers whose zero is +0.0:
\* arctan2(0, x) is 0 for x >= 0 and pi for x < 0, and pi * 180 / pi is 180.0
ArcTan2Degrees(y, x) ==
    IF y = 0 THEN (IF x >= 0 THEN Angle(0, 0) ELSE Angle(180, 180))
    ELSE IF x = 0 THEN (IF y > 0 THEN Angle(90, 90) ELSE Angle(-90, -90))
    ELSE IF x > 0 /\ y > 0 THEN
        (IF y = x THEN Angle(45, 45) ELSE IF y < x THEN Angle(0, 45) ELSE Angle(45, 90))
    ELSE IF x < 0 /\ y > 0 THEN
        (IF y = -x THEN Angle(135, 135) ELSE IF y < -x THEN Angle(135, 180)
         ELSE Angle(90, 135))
    ELSE IF x < 0 /\ y < 0 THEN
        (IF y = x THEN Angle(-135, -135) ELSE IF Abs(y) < Abs(x) THEN Angle(-180, -135)
         ELSE Angle(-135, -90))
    ELSE
        (IF Abs(y) = x THEN Angle(-45, -45) ELSE IF Abs(y) < x THEN Angle(-45, 0)
         ELSE Angle(-90, -45))

HalfTurn == 180

\* np.sqrt(df["windSpeedEast"] ** 2 + df["windSpeedNorth"] ** 2)
WindSpeed(u, v) == Sqrt(u * u + v * v)

\* (np.arctan2(df["windSpeedNorth"], df["windSpeedEast"]) * 180 / np.pi) + 180
WindDirection(u, v) ==
    LET a == ArcTan2Degrees(v, u)
    IN  Angle(a.lo + HalfTurn, a.hi + HalfTurn)

\* the wind, GHI and totalPrecipitation columns at the end of the pipe
TransformRows(rows) ==
    LET ghi == Difference(rows, "GHI")
        tp == Difference(rows, "totalPrecipitation")
    IN  [i \in 1..Len(rows) |->
            [windSpeedEast |-> rows[i].windSpeedEast,
             windSpeedNorth |-> rows[i].windSpeedNorth,
             windSpeed |-> WindSpeed(rows[i].windSpeedEast, rows[i].windSpeedNorth),
             windDirection |-> WindDirection(rows[i].windSpeedEast, rows[i].windSpeedNorth),
             GHI |-> IF Positive(ghi[i]) THEN PerSecond(ghi[i]) ELSE Float(0),
             totalPrecipitation |-> IF Positive(tp[i]) THEN PerSecond(tp[i]) ELSE NaN]]

PipeColumns == <<"windSpeedEast", "windSpeedNorth", "GHI", "totalPrecipitation">>

TransformationPipe ==
    /\ pc = "pipe_start"
    /\ df_out' = [columns |-> df_in.columns \o <<"windSpeed", "windDirection">>,
                  rows |-> TransformRows(df_in.rows)]
    /\ pc' = "pipe_done"
    /\ UNCHANGED <<mgVars, dayVars, fcVars, histVars, rasterVars, dirVars, downloadVars,
                   gribVars, clean_args, df_in>>

MaxRows == 3
Accumulated == {Float(0), Float(3600), Float(7200), NaN}

\* the wind components (m/s) a row may hold
WindComponents == {-3, 0, 4}

\* the rows a frame may hold: every pair of accumulated values under one
\* wind, and every wind under one pair of accumulated values
PipeRows ==
    {[windSpeedEast |-> 4, windSpeedNorth |-> 4, GHI |-> g, totalPrecipitation |-> t] :
        g \in Accumulated, t \in Accumulated}
    \cup
    {[windSpeedEast |-> u, windSpeedNorth |-> v, GHI |-> Float(0),
      totalPrecipitation |-> Float(0)] : u \in WindComponents, v \in WindComponents}

InitPipe ==
    /\ pc = "pipe_start"
    /\ MeteoGaliciaIdle
    /\ DirIdle
    /\ DownloadIdle
    /\ GribIdle
    /\ \E rows \in UNION {[1..n -> PipeRows] : n \in 0..MaxRows} :
          df_in = [columns |-> PipeColumns, rows |-> rows]
    /\ df_out = EmptyFrame
    /\ clean_args = <<>>

NextPipe == TransformationPipe

SpecPipe == InitPipe /\ [][NextPipe]_vars

-----------------------------------------------------------------------------
(* era5.cleaning_pipe *)

\* Latitudes and longitudes are in hundredths of a degree.

\* x.round(1) and np.round(x, 1), in tenths of a degree
RoundToTenth(x) == RoundHalfEven(x, 10)

\* df.dropna(): the rows that hold no NaN
DropNa(rows) == SelectSeq(rows, LAMBDA r : ~r.t2m.nan)

\* df[(df["latitude"].round(1) == np.round(lat, 1)) &
\*    (df.longitude.round(1) == np.round(lon, 1))], lat and lon given
SelectCell(rows, lat, lon) ==
    SelectSeq(rows, LAMBDA r : /\ RoundToTenth(r.latitude) = RoundToTenth(lat)
                               /\ RoundToTenth(r.longitude) = RoundToTenth(lon))

\* drop(['time', 'step', 'number', 'surface'], errors='ignore'), then the
\* rename of valid_time to time and of each short name to its name
DropAndRename(rows) ==
    [i \in 1..Len(rows) |->
        [latitude |-> rows[i].latitude, longitude |-> rows[i].longitude,
         time |-> rows[i].valid_time, airTemperature |-> rows[i].t2m]]

CleanedColumns == <<"latitude", "longitude", "time", "airTemperature">>

\* lat and lon are both given, or both None: the rows are filtered to the
\* cell, or left as they are
CleaningPipe ==
    /\ pc = "clean_start"
    /\ ~RoundOfNone(clean_args.lat, clean_args.lon)
    /\ LET kept == DropNa(df_in.rows)
           cell == IF clean_args.lat.given \/ clean_args.lon.given
                   THEN SelectCell(kept, clean_args.lat.value, clean_args.lon.value)
                   ELSE kept
       IN  df_out' = [columns |-> CleanedColumns, rows |-> DropAndRename(cell)]
    /\ pc' = "clean_done"
    /\ UNCHANGED <<mgVars, dayVars, fcVars, histVars, rasterVars, dirVars, downloadVars,
                   gribVars, clean_args, df_in>>

\* one of lat and lon is None: np.round(None, 1) raises in the first branch;
\* the branches for lon alone and for lat alone are never reached
CleaningPipeRaises ==
    /\ pc = "clean_start"
    /\ RoundOfNone(clean_args.lat, clean_args.lon)
    /\ pc' = "clean_raised"
    /\ UNCHANGED <<mgVars, dayVars, fcVars, histVars, rasterVars, dirVars, downloadVars,
                   gribVars, pipeVars>>

MaxCleanRows == 3
GridLatitudes == {4125, 4135, 4140}
GridLongitudes == {215, 235}

\* the rows of a dataset read from a GRIB file, index reset
GridRows ==
    {[time |-> 0, valid_time |-> 1, latitude |-> la, longitude |-> lo, t2m |-> t] :
        la \in GridLatitudes, lo \in GridLongitudes, t \in {Float(280), NaN}}

CleanArguments ==
    {[lat |-> la, lon |-> lo] :
        la \in {None, Some(4137), Some(4125)}, lo \in {None, Some(220)}}

InitClean ==
    /\ pc = "clean_start"
    /\ MeteoGaliciaIdle
    /\ DirIdle
    /\ DownloadIdle
    /\ GribIdle
    /\ clean_args \in CleanArguments
    /\ \E rows \in UNION {[1..n -> GridRows] : n \in 0..MaxCleanRows} :
          df_in = [columns |-> <<"time", "valid_time", "latitude", "longitude", "t2m">>,
                   rows |-> rows]
    /\ df_out = EmptyFrame

NextClean ==
    \/ CleaningPipe
    \/ CleaningPipeRaises

SpecClean == InitClean /\ [][NextClean]_vars

-----------------------------------------------------------------------------
(* Properties of the download loop (SpecDownload) *)

SameCallAsBefore ==
    /\ last_call # <<>>
    /\ last_call.outcome = "dl_done"
    /\ last_call.ym_range = ym_range
    /\ last_call.area = area

\* C9: a month's download is requested if and only if the month's file for
\* the bounding box was not in data_dir when the month was processed; a call
\* that follows a successful call with the same range and bounding box
\* requests no download.
C9_DownloadIffFileMissing ==
    /\ \A i \in 1..Len(processed) : processed[i].retrieved <=> ~processed[i].existed
    /\ (pc \in {"dl_month", "dl_done", "dl_raised"} /\ SameCallAsBefore)
          => \A i \in 1..Len(processed) : ~processed[i].retrieved

\* C9 witness: a successful call that downloaded two months or more, then a
\* finished call with the same arguments that went over the months and
\* downloaded nothing
C9_Witness ==
    /\ pc = "dl_done"
    /\ SameCallAsBefore
    /\ last_call.downloads >= 2
    /\ Len(processed) >= 2
    /\ \A i \in 1..Len(processed) : processed[i].existed /\ ~processed[i].retrieved

\* C12: when the client cannot be created the call ends with an error at
\* once: no month has been processed, no download has been requested, and
\* the data directory and its files are as they were before the call.
C12_ClientFailureBeforeAnyDownload ==
    [][(pc = "dl_client" /\ pc' = "dl_raised") =>
          /\ processed = <<>>
          /\ processed' = <<>>
          /\ Downloads(processed') = 0
          /\ files' = files
          /\ data_dir_exists' = data_dir_exists]_vars

\* C12 witness: a first call has ended with an error without a month
\* processed, and there is still no data directory
C12_Witness ==
    /\ pc = "dl_raised"
    /\ calls_done = 1
    /\ processed = <<>>
    /\ files = {}
    /\ ~data_dir_exists

\* the number of the calendar month m (YYYYMM), counted in months
MonthNumber(m) == (m \div 100) * 12 + (m % 100)

\* the months processed are valid, within the range, start at the least
\* month and follow one another in calendar order
MonthsInCalendarOrder ==
    /\ \A i \in 1..Len(processed) :
          /\ (processed[i].ym % 100) \in 1..12
          /\ Min(ym_range) <= processed[i].ym
          /\ processed[i].ym <= Max(ym_range)
    /\ Len(processed) > 0 => processed[1].ym = Min(ym_range)
    /\ \A i \in 1..(Len(processed) - 1) :
          MonthNumber(processed[i + 1].ym) = MonthNumber(processed[i].ym) + 1
    /\ pc = "dl_done" =>
          /\ Len(processed) > 0
          /\ processed[Len(processed)].ym = Max(ym_range)

\* C13: a call that has begun ends, and the months it processes are the
\* calendar months from min(ym_range) on, each once, in ascending order,
\* January following December, none invalid and none outside the range;
\* a call that returns has processed them all up to max(ym_range).
C13_MonthLoopTerminatesInOrder ==
    /\ []MonthsInCalendarOrder
    /\ [](pc \in {"dl_client", "dl_month"} => <>CallEnded)

\* C13 witness: a call whose range is given as (2014-01, 2013-11) has
\* returned after the three months November, December, January
C13_Witness ==
    /\ pc = "dl_done"
    /\ ym_range = <<201401, 201311>>
    /\ Len(processed) = 3
    /\ processed[2].ym = 201312
    /\ processed[3].ym = 201401

-----------------------------------------------------------------------------
(* Properties of the GRIB query (SpecGrib) *)

\* C8: no index file is on disk once the processing of a file has ended,
\* also when it ended by an error.
C8_NoIndexFileLeft == idx_files = {}

-----------------------------------------------------------------------------
(* Properties of the transformation pipe (SpecPipe) *)

\* x is the fraction d / 3600
IsRate(x, d) == ~x.nan /\ x.num * 3600 = d * x.den

\* C10: for each row after the first, with d the row's accumulated value
\* minus the previous row's, d >= 0 gives the rate d / 3600 in both columns,
\* and d < 0 gives 0 for GHI and NaN for totalPrecipitation.
C10_RatesFromDifferences ==
    pc = "pipe_done" =>
        \A i \in 2..Len(df_in.rows) :
            \A col \in {"GHI", "totalPrecipitation"} :
                LET a == df_in.rows[i][col]
                    b == df_in.rows[i - 1][col]
                    d == a.num - b.num
                    x == df_out.rows[i][col]
                IN  (~a.nan /\ ~b.nan) =>
                        IF d >= 0 THEN IsRate(x, d)
                        ELSE IF col = "GHI" THEN IsRate(x, 0)
                        ELSE x.nan

\* the angle a is at least 0 and less than 360
InHalfOpenTurn(a) == a.lo >= 0 /\ (a.hi < 360 \/ (a.hi = 360 /\ a.lo < a.hi))

\* C11: for every row, windSpeed is the non-negative square root of
\* u^2 + v^2 and 0 <= windDirection < 360, the vectors on the axes and the
\* zero vector included.
C11_WindSpeedAndDirectionRange ==
    pc = "pipe_done" =>
        \A i \in 1..Len(df_out.rows) :
            LET u == df_in.rows[i].windSpeedEast
                v == df_in.rows[i].windSpeedNorth
                s == df_out.rows[i].windSpeed
            IN  /\ s.floor >= 0
                /\ s.floor * s.floor <= u * u + v * v
                /\ (s.floor + 1) * (s.floor + 1) > u * u + v * v
                /\ s.exact <=> (s.floor * s.floor = u * u + v * v)
                /\ InHalfOpenTurn(df_out.rows[i].windDirection)

-----------------------------------------------------------------------------
(* Properties of the cleaning pipe (SpecClean) *)

\* the row r is in the cell asked for: its rounded latitude is the rounded
\* lat when lat is given, and its rounded longitude is the rounded lon when
\* lon is given
InCellAskedFor(r) ==
    /\ clean_args.lat.given =>
          RoundHalfEven(r.latitude, 10) = RoundHalfEven(clean_args.lat.value, 10)
    /\ clean_args.lon.given =>
          RoundHalfEven(r.longitude, 10) = RoundHalfEven(clean_args.lon.value, 10)

\* C14: cleaning_pipe does not fail, whichever of lat and lon are given,
\* and the rows it returns are the complete rows of the frame that are in
\* the cell asked for, in their order.
C14_KeepsSelectedCell ==
    /\ pc # "clean_raised"
    /\ pc = "clean_done" =>
          LET want == SelectSeq(df_in.rows, LAMBDA r : ~r.t2m.nan /\ InCellAskedFor(r))
          IN  /\ Len(df_out.rows) = Len(want)
              /\ \A i \in 1..Len(want) :
                    /\ df_out.rows[i].latitude = want[i].latitude
                    /\ df_out.rows[i].longitude = want[i].longitude
                    /\ df_out.rows[i].airTemperature = want[i].t2m

\* a call that returns has kept the complete rows of the cell asked for
CellKeptWhenItReturns ==
    pc = "clean_done" =>
        LET want == SelectSeq(df_in.rows, LAMBDA r : ~r.t2m.nan /\ InCellAskedFor(r))
        IN  /\ Len(df_out.rows) = Len(want)
            /\ \A i \in 1..Len(want) : df_out.rows[i].latitude = want[i].latitude

====
